---- MODULE Spec2Model ----
(***************************************************************************)
(* Model of watcher/alert_watcher.py: the log follower, the per-line       *)
(* handler (rolling window, failover detection, error-rate detection) and  *)
(* the cooldown-gated Slack dispatch.                                      *)
(***************************************************************************)
EXTENDS Integers, Sequences, FiniteSets, TLC

(***************************************************************************)
(* Binary64 arithmetic, as far as check_error_rate needs it:               *)
(* rate = (errors / len(rolling_statuses)) * 100 is one correctly rounded  *)
(* division of two small integers followed by one correctly rounded        *)
(* multiplication by 100.0.  TLC's integers are 32 bits wide, so a         *)
(* positive double is kept as [d1, d2, d3, e]: three limbs of 18 bits,     *)
(* most significant first, whose 54 bits are the 53-bit significand        *)
(* followed by a 0, and the exponent e; its value is                       *)
(* (d1 * Limb^2 + d2 * Limb + d3) * 2^(e - 53), with d1 >= Limb / 2.       *)
(***************************************************************************)
Limb == 2^18

FloatZero == [d1 |-> 0, d2 |-> 0, d3 |-> 0, e |-> 0]

FloatOne == [d1 |-> Limb \div 2, d2 |-> 0, d3 |-> 0, e |-> 0]

RECURSIVE LeadShift(_, _)
\* the k >= 1 with 2^k * a >= n > 2^(k-1) * a, for 0 < a < n
LeadShift(a, n) == IF 2 * a >= n THEN 1 ELSE 1 + LeadShift(2 * a, n)

\* round to nearest, ties to even: d1 d2 d3 are the leading 54 bits of an exact
\* value whose leading bit stands for 2^e (the 54th is the guard bit), sticky
\* says that bits beyond them are set
RoundNearestEven(d1, d2, d3, sticky, e) ==
    LET guard == d3 % 2
        lsb   == (d3 \div 2) % 2
        up    == guard = 1 /\ (sticky \/ lsb = 1)
        r3    == d3 - guard + (IF up THEN 2 ELSE 0)
        c3    == r3 \div Limb
        r2    == d2 + c3
        c2    == r2 \div Limb
        r1    == d1 + c2
    IN  IF r1 = Limb
        THEN [d1 |-> Limb \div 2, d2 |-> 0, d3 |-> 0, e |-> e + 1]
        ELSE [d1 |-> r1, d2 |-> r2 % Limb, d3 |-> r3 % Limb, e |-> e]

\* a / n for integers 0 <= a <= n, 0 < n < 2^13 (Python's int / int is
\* correctly rounded): long division in base Limb
FloatDiv(a, n) ==
    IF a = 0 THEN FloatZero
    ELSE IF a = n THEN FloatOne
    ELSE LET k  == LeadShift(a, n)
             r0 == a * 2^(k - 1)
             d1 == (r0 * Limb) \div n
             r1 == (r0 * Limb) % n
             d2 == (r1 * Limb) \div n
             r2 == (r1 * Limb) % n
             d3 == (r2 * Limb) \div n
             r3 == (r2 * Limb) % n
         IN  RoundNearestEven(d1, d2, d3, r3 # 0, -k)

\* x * c for an integer 2 <= c < 2^13 (c = 100 is exact as a double)
FloatMulSmall(x, c) ==
    IF x = FloatZero THEN FloatZero
    ELSE LET p3 == x.d3 * c
             p2 == x.d2 * c + p3 \div Limb
             p1 == x.d1 * c + p2 \div Limb
             l3 == p3 % Limb
             l2 == p2 % Limb
             \* p1 has 18 + s bits
             s  == CHOOSE i \in 1..13 : 2^(17 + i) <= p1 /\ p1 < 2^(18 + i)
             lo == 2^s
             hi == 2^(18 - s)
         IN  RoundNearestEven(p1 \div lo,
                              (p1 % lo) * hi + l2 \div lo,
                              (l2 % lo) * hi + l3 \div lo,
                              l3 % lo # 0,
                              x.e + s)

\* int(x) for a double 0 <= x < 2^18
FloatFloor(x) ==
    IF x = FloatZero \/ x.e < 0 THEN 0 ELSE x.d1 \div 2^(17 - x.e)

FloatIsInt(x) ==
    x = FloatZero \/ (x.e >= 0 /\ x.d1 % 2^(17 - x.e) = 0 /\ x.d2 = 0 /\ x.d3 = 0)

\* x >= t and x <= t for a double 0 <= x < 2^18 and an integer-valued double t >= 0
FloatGE(x, t) == FloatFloor(x) >= t

FloatLE(x, t) == FloatFloor(x) < t \/ (FloatFloor(x) = t /\ FloatIsInt(x))

(***************************************************************************)
(* Bounds of the exploration.                                              *)
(***************************************************************************)
\* records the environment delivers in a run that starts at module load
MaxLines == 6

\* records it delivers in a run that starts from a part-filled window
MaxWarmLines == 3

\* of the records of a run, those whose status is not 200
MaxOdd == 1

\* ALERT_COOLDOWN_SEC of the explored configurations
CooldownSec == 2

\* the clock runs from 0 to MaxClock seconds
MaxClock == 2 * CooldownSec

\* bytes the followed file grows to
MaxFile == 5

(***************************************************************************)
(* Values.                                                                 *)
(***************************************************************************)
None == "None"

\* a token of a line, when the line has it: <<>> or <<value>>
Opt(S) == {<<>>} \cup {<<x>> : x \in S}

\* values of pool=<id> in a line; a line may carry no pool= token
PoolTokens == {"blue", "green"}

\* three-digit status tokens of a line
StatusTokens == {200, 500, 600}

\* a raw line, as far as handle_line's regular expressions see it
Lines == [pool : Opt(PoolTokens), status : {<<x>> : x \in StatusTokens}]

AlertKinds == {"failover", "error_rate"}

\* the configurations explored from module load: WINDOW_SIZE,
\* ERROR_RATE_THRESHOLD (an integer-valued float), SLACK_WEBHOOK_URL (unset or
\* set), MAINTENANCE_MODE
Configs ==
    ({0} \X {10} \X {"", "hook"} \X BOOLEAN)
    \cup ({-1, 3} \X {10} \X {"hook"} \X {FALSE})

VARIABLES
    \* configuration, read from the environment when the module is loaded
    SLACK_WEBHOOK_URL, ERROR_RATE_THRESHOLD, WINDOW_SIZE, ALERT_COOLDOWN_SEC,
    MAINTENANCE_MODE,
    \* module state
    last_seen_pool, rolling_statuses, last_alert_time,
    \* "load" (module being imported), "run" (main's loop), "crashed"
    pc,
    \* the wall clock, in whole seconds (time.time())
    now,
    \* the followed file: does it exist, its bytes, the reader's position,
    \* where follow() stands, the position follow() sought to, what it yielded
    file, fpos, fpc, seekpos, yielded,
    \* the log path: does it name a file now, has it ever since main started;
    \* the exceptions main's loop has caught
    exists, appeared, caught,
    \* history: the records the environment still delivers (all, and those
    \* with a status other than 200), the statuses of the records processed so
    \* far, what the last handle_line call did, the time of the last successful
    \* transport call of each kind, and the time of the last transport call of
    \* each kind if it failed
    fuel, hist, out, delivered, failedAt

config == <<SLACK_WEBHOOK_URL, ERROR_RATE_THRESHOLD, WINDOW_SIZE,
            ALERT_COOLDOWN_SEC, MAINTENANCE_MODE>>

watcher == <<last_seen_pool, rolling_statuses, last_alert_time>>

follower == <<file, fpos, fpc, seekpos, yielded>>

history == <<fuel, hist, out, delivered, failedAt>>

startup == <<exists, appeared, caught>>

vars == <<config, watcher, pc, now, follower, startup, history>>

(***************************************************************************)
(* The handler: handle_line and what it calls.                             *)
(***************************************************************************)
\* check_error_rate answers None below this many samples
MinSamples == 10

NoRate == [none |-> TRUE]

Outcomes == {"none", "cooldown", "maintenance", "noconfig", "sent", "failed"}

\* pool = pool_m.group('pool') if pool_m else 'unknown'
ExtractPool(line) == IF line.pool = <<>> THEN "unknown" ELSE line.pool[1]

\* status = int(status_m.group('status')) if status_m else 0
ExtractStatus(line) == IF line.status = <<>> THEN 0 ELSE line.status[1]

\* a window that, once full, starts over with the new entry
Push_Restart(w, s, maxlen) ==
    IF maxlen = 0 THEN w
    ELSE IF Len(w) >= maxlen THEN <<s>>
    ELSE Append(w, s)

\* a deque that, once full, drops the newest entry instead of the oldest
Push_DropNewest(w, s, maxlen) ==
    IF maxlen = 0 THEN w
    ELSE IF Len(w) >= maxlen THEN Append(SubSeq(w, 1, Len(w) - 1), s)
    ELSE Append(w, s)

\* deque(maxlen=maxlen).append(s)
Push(w, s, maxlen) ==
    IF maxlen = 0 THEN w
    ELSE IF Len(w) >= maxlen THEN Append(Tail(w), s)
    ELSE Append(w, s)

\* the last maxlen entries of h
Newest(h, maxlen) ==
    IF Len(h) <= maxlen THEN h ELSE SubSeq(h, Len(h) - maxlen + 1, Len(h))

\* if WINDOW_SIZE > 0: rolling_statuses.append(status)
UpdateWindow(w, s) == IF WINDOW_SIZE > 0 THEN Push(w, s, WINDOW_SIZE) ELSE w

\* 500 <= s < 600
IsError(s) == 500 <= s /\ s < 600

CountErrors(w) == Cardinality({i \in 1..Len(w) : IsError(w[i])})

\* check_error_rate asking for more than MinSamples samples
check_error_rate_OneMore(w) ==
    IF Len(w) <= MinSamples THEN NoRate
    ELSE FloatMulSmall(FloatDiv(CountErrors(w), Len(w)), 100)

check_error_rate(w) ==
    IF Len(w) < MinSamples THEN NoRate
    ELSE FloatMulSmall(FloatDiv(CountErrors(w), Len(w)), 100)

\* rate is not None and rate >= ERROR_RATE_THRESHOLD
RateHigh(rate) == rate # NoRate /\ FloatGE(rate, ERROR_RATE_THRESHOLD)

\* post_slack without its maintenance gate
post_slack_NoMaintenanceGate(transport_ok) ==
    IF SLACK_WEBHOOK_URL = "" THEN "noconfig"
    ELSE IF transport_ok THEN "sent"
    ELSE "failed"

\* post_slack: the two gates, then the transport call, which answers
\* transport_ok (anything else, an exception included, is a failure)
post_slack(transport_ok) ==
    IF MAINTENANCE_MODE THEN "maintenance"
    ELSE IF SLACK_WEBHOOK_URL = "" THEN "noconfig"
    ELSE IF transport_ok THEN "sent"
    ELSE "failed"

\* a cooldown test that any time passes
CooldownOver_Always(lat, key, t) == t - lat[key] >= 0

\* t - last_alert_time.get(key, 0) >= ALERT_COOLDOWN_SEC
CooldownOver(lat, key, t) == t - lat[key] >= ALERT_COOLDOWN_SEC

\* the two gates of post_slack tested before the cooldown
Dispatch_GatesFirst(lat, key, t, transport_ok) ==
    IF post_slack(transport_ok) \in {"maintenance", "noconfig"}
    THEN post_slack(transport_ok)
    ELSE IF CooldownOver(lat, key, t) THEN post_slack(transport_ok)
    ELSE "cooldown"

\* the cooldown test around post_slack, for either kind of alert
Dispatch(lat, key, t, transport_ok) ==
    IF CooldownOver(lat, key, t) THEN post_slack(transport_ok) ELSE "cooldown"

\* the timestamp advanced after any transport call, failed ones included
Stamp_AnyCall(lat, key, t, outcome) ==
    IF outcome \in {"sent", "failed"} THEN [lat EXCEPT ![key] = t] ELSE lat

\* a delivery that restarts the cooldown of every kind
Stamp_AllKinds(lat, key, t, outcome) ==
    IF outcome = "sent" THEN [k \in DOMAIN lat |-> t] ELSE lat

\* if posted: last_alert_time[key] = t
Stamp(lat, key, t, outcome) ==
    IF outcome = "sent" THEN [lat EXCEPT ![key] = t] ELSE lat

\* every record after the first taken for a pool flip
PoolFlip_Always(seen, pool) == seen # None

\* records without a pool= token left out of the comparison
PoolFlip_SkipUnknown(seen, pool) ==
    seen # None /\ pool # seen /\ pool # "unknown" /\ seen # "unknown"

\* elif pool != last_seen_pool
PoolFlip(seen, pool) == seen # None /\ pool # seen

\* last_seen_pool left alone by the pool-flip branch
SeenAfter_Stale(seen, pool) == IF seen = None THEN pool ELSE seen

\* last_seen_pool after the pool-flip block
SeenAfter(seen, pool) == IF seen = None \/ pool # seen THEN pool ELSE seen

IsCall(outcome) == outcome \in {"sent", "failed"}

\* seconds from the failed transport call of this kind to an event at t, when
\* the last transport call of this kind failed; else -1
Gap(key, raised, t) ==
    IF raised /\ failedAt[key] >= 0 THEN t - failedAt[key] ELSE -1

\* what the last handle_line call did: the pool of the record and of the record
\* before it, the outcome of the failover alert with the pools and the time in
\* its message, the outcome of the error-rate alert with the pool and the time
\* in its message
Report(pool, flip, fo, tF, high, er, tE, seen1) ==
    [pool   |-> pool,
     prev   |-> out.pool,
     fo     |-> fo,
     from   |-> IF flip THEN last_seen_pool ELSE None,
     to     |-> IF flip THEN pool ELSE None,
     tF     |-> IF flip THEN tF ELSE -1,
     foGap  |-> Gap("failover", flip, tF),
     er     |-> er,
     erPool |-> IF high THEN seen1 ELSE None,
     tE     |-> IF high THEN tE ELSE -1,
     erGap  |-> Gap("error_rate", high, tE)]

\* the time of the last successful transport call of a kind
Mark(key, o, t) == IF o = "sent" THEN t ELSE delivered[key]

\* the time of the last transport call of a kind, if it failed
Fail(key, o, t) ==
    IF o = "failed" THEN t
    ELSE IF o = "sent" THEN -1
    ELSE failedAt[key]

\* the answers the transport can give to a call that Dispatch would make
Answers(lat, key, t) ==
    IF CooldownOver(lat, key, t) /\ IsCall(post_slack(TRUE)) THEN BOOLEAN
    ELSE {TRUE}

\* handle_line(line).  tok1 and tok2 are the transport's answers to the
\* failover and the error-rate call (if made), d the seconds that pass between
\* the two readings of the clock.
HandleLine(line) ==
    /\ pc = "run"
    /\ fuel.lines > 0
    /\ ExtractStatus(line) = 200 \/ fuel.odd > 0
    /\ \E w1 \in {UpdateWindow(rolling_statuses, ExtractStatus(line))} :
       \E high \in {RateHigh(check_error_rate(w1))} :
       \E tok1 \in Answers(last_alert_time, "failover", now) :
       \E d \in IF high THEN {0, 1} ELSE {0} :
       LET pool   == ExtractPool(line)
           flip   == PoolFlip(last_seen_pool, pool)
           tF     == now
           fo     == IF flip
                     THEN Dispatch(last_alert_time, "failover", tF, tok1)
                     ELSE "none"
           lat1   == Stamp(last_alert_time, "failover", tF, fo)
           seen1  == SeenAfter(last_seen_pool, pool)
           tE     == now + d
       IN  /\ tE <= MaxClock
           /\ flip \/ tok1
           /\ \E tok2 \in Answers(lat1, "error_rate", tE) :
              LET er   == IF high
                          THEN Dispatch(lat1, "error_rate", tE, tok2)
                          ELSE "none"
                  lat2 == Stamp(lat1, "error_rate", tE, er)
              IN  /\ high \/ tok2
                  /\ rolling_statuses' = w1
                  /\ last_seen_pool' = seen1
                  /\ last_alert_time' = lat2
                  /\ now' = tE
                  /\ fuel' = [lines |-> fuel.lines - 1,
                              odd   |-> IF ExtractStatus(line) = 200
                                        THEN fuel.odd ELSE fuel.odd - 1]
                  /\ hist' = Append(hist, ExtractStatus(line))
                  /\ out' = Report(pool, flip, fo, tF, high, er, tE, seen1)
                  /\ delivered' = [failover   |-> Mark("failover", fo, tF),
                                   error_rate |-> Mark("error_rate", er, tE)]
                  /\ failedAt' = [failover   |-> Fail("failover", fo, tF),
                                  error_rate |-> Fail("error_rate", er, tE)]
                  /\ UNCHANGED <<config, pc, follower, startup>>

\* the clock advances between two lines
Tick ==
    /\ pc = "run"
    /\ now < MaxClock
    /\ now' = now + 1
    /\ UNCHANGED <<config, watcher, pc, follower, startup, history>>

\* the module is loaded: rolling_statuses = deque(maxlen=WINDOW_SIZE) raises
\* ValueError for a negative maxlen, and the process ends with the traceback
ModuleLoad ==
    /\ pc = "load"
    /\ pc' = IF WINDOW_SIZE < 0 THEN "crashed" ELSE "run"
    /\ UNCHANGED <<config, watcher, now, follower, startup, history>>

NoOut == [pool |-> None, prev |-> None,
          fo |-> "none", from |-> None, to |-> None, tF |-> -1, foGap |-> -1,
          er |-> "none", erPool |-> None, tE |-> -1, erGap |-> -1]

\* the state the module body builds: the configuration is read from the
\* environment, then last_seen_pool, rolling_statuses, last_alert_time
InitWatcher ==
    /\ ALERT_COOLDOWN_SEC = CooldownSec
    /\ last_seen_pool = None
    /\ rolling_statuses = <<>>
    /\ last_alert_time = [failover |-> 0, error_rate |-> 0]
    /\ now = 0
    /\ out = NoOut
    /\ delivered = [failover |-> -1, error_rate |-> -1]
    /\ failedAt = [failover |-> -1, error_rate |-> -1]

\* no file is followed in the handler's specification
InitNoFile ==
    /\ exists = TRUE
    /\ appeared = TRUE
    /\ caught = 0
    /\ file = <<>>
    /\ fpos = 0
    /\ fpc = "off"
    /\ seekpos = 0
    /\ yielded = <<>>

Init ==
    /\ InitWatcher
    /\ InitNoFile
    /\ pc = "load"
    /\ \E c \in Configs :
          /\ WINDOW_SIZE = c[1]
          /\ ERROR_RATE_THRESHOLD = c[2]
          /\ SLACK_WEBHOOK_URL = c[3]
          /\ MAINTENANCE_MODE = c[4]
    /\ hist = <<>>
    /\ fuel = [lines |-> MaxLines, odd |-> MaxOdd]

Next ==
    \/ ModuleLoad
    \/ Tick
    \/ \E line \in Lines : HandleLine(line)

Spec == Init /\ [][Next]_vars

(***************************************************************************)
(* Runs from a part-filled window.  From module load a window of 10 to 50  *)
(* statuses takes as many records to fill, so the handler is also explored *)
(* from the states the watcher is in after a first stretch of records of   *)
(* pool "blue", oks times status 200 and then errs times status 500, that  *)
(* raised no alert: no pool changed, and the error rate, which grows along *)
(* such a stretch, is still below the threshold (or undefined) at its end. *)
(***************************************************************************)
Rep(x, k) == [i \in 1..k |-> x]

\* WINDOW_SIZE, ERROR_RATE_THRESHOLD, SLACK_WEBHOOK_URL, MAINTENANCE_MODE, oks, errs
WarmStarts ==
    ({10} \X {10} \X {"", "hook"} \X BOOLEAN \X {8} \X {1})
    \cup ({10} \X {10} \X {"hook"} \X {FALSE} \X {9} \X {0})
    \cup ({3} \X {10} \X {"hook"} \X {FALSE} \X {9} \X {0})
    \cup ({20} \X {2} \X {"hook"} \X {FALSE} \X {19} \X {0})
    \cup ({50} \X {58} \X {"hook"} \X {FALSE} \X {21} \X {28})

InitWarm ==
    /\ InitNoFile
    /\ ALERT_COOLDOWN_SEC = CooldownSec
    /\ \E c \in WarmStarts :
          /\ WINDOW_SIZE = c[1]
          /\ ERROR_RATE_THRESHOLD = c[2]
          /\ SLACK_WEBHOOK_URL = c[3]
          /\ MAINTENANCE_MODE = c[4]
          /\ hist = Rep(200, c[5]) \o Rep(500, c[6])
          /\ rolling_statuses = Newest(Rep(200, c[5]) \o Rep(500, c[6]), c[1])
    /\ ~RateHigh(check_error_rate(rolling_statuses))
    /\ last_seen_pool = "blue"
    /\ last_alert_time = [failover |-> 0, error_rate |-> 0]
    /\ pc = "run"
    /\ now = 0
    /\ fuel = [lines |-> MaxWarmLines, odd |-> MaxOdd]
    /\ out = [NoOut EXCEPT !.pool = "blue", !.prev = "blue"]
    /\ delivered = [failover |-> -1, error_rate |-> -1]
    /\ failedAt = [failover |-> -1, error_rate |-> -1]

\* the records that follow the first stretch: either pool, status 200 or 500
WarmLines == {l \in Lines : l.pool # <<>> /\ l.status[1] \in {200, 500}}

NextWarm ==
    \/ Tick
    \/ \E line \in WarmLines : HandleLine(line)

SpecWarm == InitWarm /\ [][NextWarm]_vars

(***************************************************************************)
(* The follower: follow(thefile) over a file that other processes append   *)
(* to.  The file is a sequence of characters; a write appends one or more  *)
(* of them, so a line may be in the file without its newline yet.          *)
(***************************************************************************)
Chars == {"a", "\n"}

\* the file's content before the follower seeks: nothing, a line, a line and
\* the start of the next one
OldContents == {<<>>, <<"a", "\n">>, <<"\n", "a">>}

\* file.readline() at position p of content f: the characters up to and
\* including the next newline, or up to the end of the file if there is none
ReadlineEnd(f, p) ==
    IF \E i \in (p + 1)..Len(f) : f[i] = "\n"
    THEN CHOOSE i \in (p + 1)..Len(f) :
             f[i] = "\n" /\ \A j \in (p + 1)..(i - 1) : f[j] # "\n"
    ELSE Len(f)

readline(f, p) == SubSeq(f, p + 1, ReadlineEnd(f, p))

\* thefile.seek(0, 2)
Seek ==
    /\ fpc = "seek"
    /\ fpos' = Len(file)
    /\ seekpos' = Len(file)
    /\ fpc' = "read"
    /\ UNCHANGED <<config, watcher, pc, now, file, yielded, startup, history>>

\* line = thefile.readline(); an empty line sends follow to sleep, any other
\* is yielded
ReadLine ==
    /\ fpc = "read"
    /\ fpos' = ReadlineEnd(file, fpos)
    /\ IF readline(file, fpos) = <<>>
       THEN fpc' = "sleep" /\ UNCHANGED yielded
       ELSE fpc' = "read" /\ yielded' = Append(yielded, readline(file, fpos))
    /\ UNCHANGED <<config, watcher, pc, now, file, seekpos, startup, history>>

\* time.sleep(0.2); continue
Wake ==
    /\ fpc = "sleep"
    /\ fpc' = "read"
    /\ UNCHANGED <<config, watcher, pc, now, file, fpos, seekpos, yielded,
                   startup, history>>

\* another process appends to the file
Write(c) ==
    /\ Len(file) < MaxFile
    /\ file' = Append(file, c)
    /\ UNCHANGED <<config, watcher, pc, now, fpos, fpc, seekpos, yielded,
                   startup, history>>

\* main() has opened the file and calls follow(f); the handler is not run
InitFollow ==
    /\ InitWatcher
    /\ WINDOW_SIZE = 10
    /\ ERROR_RATE_THRESHOLD = 10
    /\ SLACK_WEBHOOK_URL = "hook"
    /\ MAINTENANCE_MODE = FALSE
    /\ pc = "run"
    /\ hist = <<>>
    /\ fuel = [lines |-> 0, odd |-> 0]
    /\ exists = TRUE
    /\ appeared = TRUE
    /\ caught = 0
    /\ file \in OldContents
    /\ fpos = 0
    /\ fpc = "seek"
    /\ seekpos = 0
    /\ yielded = <<>>

NextFollow ==
    \/ Seek
    \/ ReadLine
    \/ Wake
    \/ \E c \in Chars : Write(c)

SpecFollow == InitFollow /\ [][NextFollow]_vars

(***************************************************************************)
(* main(): open_and_follow(LOG_PATH), then handle_line on every line that  *)
(* follow yields.  The path may name no file when main starts; other       *)
(* processes create the file, remove it and append to it.                  *)
(***************************************************************************)
\* bytes the file grows to in main's specification
MaxMainFile == 3

\* each element of a line stands for one field with the space after it: "b"
\* for pool=blue, "a" for a field without pool=
MainChars == {"a", "b", "\n"}

\* what handle_line's regular expressions find in such a line: the first
\* pool= field, and no three-digit status
ParseLine(l) ==
    [pool   |-> IF \E i \in 1..Len(l) : l[i] = "b" THEN <<"blue">> ELSE <<>>,
     status |-> <<>>]

\* where open_and_follow stands: the first open, the sleep of the poll loop,
\* its os.path.exists test, the open that follows it
OpenerStates == {"open", "poll", "check", "reopen"}

\* f = open(path, ...) in the try block: FileNotFoundError starts the polling
TryOpen ==
    /\ pc = "run"
    /\ fpc = "open"
    /\ fpc' = IF exists THEN "seek" ELSE "poll"
    /\ UNCHANGED <<config, watcher, pc, now, file, fpos, seekpos, yielded,
                   startup, history>>

\* time.sleep(1) in the poll loop
PollSleep ==
    /\ pc = "run"
    /\ fpc = "poll"
    /\ fpc' = "check"
    /\ UNCHANGED <<config, watcher, pc, now, file, fpos, seekpos, yielded,
                   startup, history>>

\* a poll loop that gives up when the file is not there
PollNext_GiveUp(found) == IF found THEN "reopen" ELSE "exit"

\* if os.path.exists(path): open and break; else the loop goes on
PollNext(found) == IF found THEN "reopen" ELSE "poll"

PollCheck ==
    /\ pc = "run"
    /\ fpc = "check"
    /\ fpc' = PollNext(exists)
    /\ UNCHANGED <<config, watcher, pc, now, file, fpos, seekpos, yielded,
                   startup, history>>

\* f = open(path, ...) inside the poll loop, outside any try: if the file is
\* gone again FileNotFoundError leaves open_and_follow and main, and the
\* process ends with the traceback
Reopen ==
    /\ pc = "run"
    /\ fpc = "reopen"
    /\ IF exists
       THEN fpc' = "seek" /\ UNCHANGED pc
       ELSE pc' = "crashed" /\ UNCHANGED fpc
    /\ UNCHANGED <<config, watcher, now, file, fpos, seekpos, yielded,
                   startup, history>>

\* another process creates the file
Create ==
    /\ ~exists
    /\ exists' = TRUE
    /\ appeared' = TRUE
    /\ file' = <<>>
    /\ UNCHANGED <<config, watcher, pc, now, fpos, fpc, seekpos, yielded,
                   caught, history>>

\* another process removes the file, before main has it open
Remove ==
    /\ exists
    /\ fpc \in OpenerStates
    /\ exists' = FALSE
    /\ file' = <<>>
    /\ UNCHANGED <<config, watcher, pc, now, fpos, fpc, seekpos, yielded,
                   appeared, caught, history>>

MainWrite(c) ==
    /\ exists
    /\ Len(file) < MaxMainFile
    /\ Write(c)

\* the lines follow has yielded are handled one by one: follow runs on only
\* when main asks for the next line
Pending == Len(hist) < Len(yielded)

MainReadLine ==
    /\ pc = "run"
    /\ ~Pending
    /\ ReadLine

\* handle_line(line) returns
MainHandle ==
    /\ Pending
    /\ HandleLine(ParseLine(yielded[Len(hist) + 1]))

\* a main without the try block: the exception ends the process
AfterException_Propagates == "crashed"

\* except Exception as e: print(...), and the loop goes on
AfterException == "run"

\* handle_line(line) raises: a print of the pool-flip branch fails (lines 46,
\* 49, 58, 114), after the window was updated and before last_seen_pool is
\* set; main catches the exception
MainHandleRaises ==
    /\ pc = "run"
    /\ Pending
    /\ LET line == ParseLine(yielded[Len(hist) + 1])
       IN  /\ PoolFlip(last_seen_pool, ExtractPool(line))
           /\ rolling_statuses' =
                 UpdateWindow(rolling_statuses, ExtractStatus(line))
           /\ hist' = Append(hist, ExtractStatus(line))
           /\ out' = Report(ExtractPool(line), TRUE, "raised", now,
                            FALSE, "none", now, last_seen_pool)
    /\ fuel' = [lines |-> fuel.lines - 1, odd |-> fuel.odd - 1]
    /\ caught' = caught + 1
    /\ pc' = AfterException
    /\ UNCHANGED <<config, last_seen_pool, last_alert_time, now, follower,
                   exists, appeared, delivered, failedAt>>

InitMain ==
    /\ InitWatcher
    /\ WINDOW_SIZE = 10
    /\ ERROR_RATE_THRESHOLD = 10
    /\ SLACK_WEBHOOK_URL = "hook"
    /\ MAINTENANCE_MODE = FALSE
    /\ pc = "run"
    /\ hist = <<>>
    /\ fuel = [lines |-> MaxMainFile, odd |-> MaxMainFile]
    /\ exists \in BOOLEAN
    /\ appeared = exists
    /\ caught = 0
    /\ file \in IF exists THEN {<<>>, <<"a">>} ELSE {<<>>}
    /\ fpos = 0
    /\ fpc = "open"
    /\ seekpos = 0
    /\ yielded = <<>>

\* the steps of the process
MainStep ==
    \/ TryOpen
    \/ PollSleep
    \/ PollCheck
    \/ Reopen
    \/ Seek
    \/ MainReadLine
    \/ Wake
    \/ MainHandle
    \/ MainHandleRaises

NextMain ==
    \/ MainStep
    \/ Create
    \/ Remove
    \/ Tick
    \/ \E c \in MainChars : MainWrite(c)

SpecMain == InitMain /\ [][NextMain]_vars

\* the process is scheduled: a step it can take is taken; what other processes
\* do to the file, and the clock, are under no such obligation
SpecMainFair ==
    /\ InitMain
    /\ [][NextMain]_vars
    /\ WF_vars(TryOpen)
    /\ WF_vars(PollSleep)
    /\ WF_vars(PollCheck)
    /\ WF_vars(Reopen)
    /\ WF_vars(Seek)
    /\ WF_vars(MainReadLine)
    /\ WF_vars(Wake)
    /\ WF_vars(MainHandle \/ MainHandleRaises)

(***************************************************************************)
(* Properties.                                                             *)
(***************************************************************************)
\* the outcome and the clock reading of the alert of a kind in the last call
OutcomeOf(key) == IF key = "failover" THEN out.fo ELSE out.er

TimeOf(key) == IF key = "failover" THEN out.tF ELSE out.tE

GapOf(key) == IF key = "failover" THEN out.foGap ELSE out.erGap

\* C1: with maintenance mode on no transport call is ever issued, whatever the
\* events and the cooldown state, and last_alert_time keeps its initial values.
C1_MaintenanceNeverCalls ==
    MAINTENANCE_MODE =>
        /\ \A k \in AlertKinds : ~IsCall(OutcomeOf(k))
        /\ \A k \in AlertKinds : delivered[k] = -1 /\ failedAt[k] = -1
        /\ last_alert_time = [failover |-> 0, error_rate |-> 0]

\* a line that raised both alerts after the cooldown, with maintenance mode on
C1_Witness ==
    /\ MAINTENANCE_MODE
    /\ out.fo = "maintenance"
    /\ out.er = "maintenance"
    /\ out.tF >= ALERT_COOLDOWN_SEC

\* C2: once an alert of a kind was delivered at time t, an event of that kind
\* at a time t' with t' - t < ALERT_COOLDOWN_SEC is suppressed without a
\* transport call, so two deliveries of one kind are at least
\* ALERT_COOLDOWN_SEC apart.
C2_CooldownAfterDelivery ==
    [][\A k \in AlertKinds :
          (/\ Len(hist') > Len(hist)
           /\ OutcomeOf(k)' # "none"
           /\ delivered[k] >= 0
           /\ TimeOf(k)' - delivered[k] < ALERT_COOLDOWN_SEC)
          => OutcomeOf(k)' = "cooldown" /\ delivered'[k] = delivered[k]]_vars

\* both kinds delivered, and both suppressed one second later
C2_Witness ==
    /\ out.fo = "cooldown" /\ delivered.failover >= 0
    /\ out.tF - delivered.failover = 1
    /\ out.er = "cooldown" /\ delivered.error_rate >= 0
    /\ out.tE - delivered.error_rate = 1

\* C3: last_alert_time[k] is the time of the last successful transport call of
\* kind k (0 before the first): a failed call leaves it alone.  An event of
\* kind k less than ALERT_COOLDOWN_SEC after a failed call of that kind issues
\* a transport call again.
C3_FailureKeepsCooldown ==
    \A k \in AlertKinds :
        /\ last_alert_time[k] = IF delivered[k] = -1 THEN 0 ELSE delivered[k]
        /\ (0 <= GapOf(k) /\ GapOf(k) < ALERT_COOLDOWN_SEC) => IsCall(OutcomeOf(k))

\* a failover call one second after a failed one, while nothing was delivered
C3_Witness ==
    /\ out.foGap = 1
    /\ IsCall(out.fo)
    /\ out.er = "failed"
    /\ last_alert_time.error_rate = 0

\* C4: a failover event is raised exactly at the records whose pool differs
\* from the pool of the record before, from that pool to the record's own; the
\* first record raises none.
C4_FailoverOnPoolChange ==
    IF out.prev # None /\ out.pool # out.prev
    THEN out.fo # "none" /\ out.from = out.prev /\ out.to = out.pool
    ELSE out.fo = "none" /\ out.from = None /\ out.to = None

\* the sixth record is back on blue after green
C4_Witness ==
    /\ Len(hist) = 6
    /\ out.fo # "none"
    /\ out.from = "green"
    /\ out.to = "blue"

\* C5: with a capacity N > 0 the window holds the statuses of the last
\* min(n, N) of the n records processed, in arrival order.
C5_WindowIsNewest ==
    (WINDOW_SIZE > 0 /\ pc = "run") =>
        /\ Len(rolling_statuses) <= WINDOW_SIZE
        /\ rolling_statuses = Newest(hist, WINDOW_SIZE)

\* five pushes into a window of three: the two oldest are gone
C5_Witness ==
    /\ WINDOW_SIZE = 3
    /\ hist = <<200, 200, 200, 500, 200>>
    /\ rolling_statuses = <<200, 500, 200>>

\* the 5xx statuses of a window, counted without IsError
FiveHundreds(w) == Cardinality({i \in 1..Len(w) : w[i] \in 500..599})

Min(a, b) == IF a <= b THEN a ELSE b

\* C6, as claimed: for a capacity >= 1, check_error_rate is undefined while
\* fewer than 10 statuses have been pushed and is a value in [0,100] once 10 or
\* more have been.
C6_AsClaimed ==
    (WINDOW_SIZE >= 1 /\ pc = "run") =>
        IF Len(hist) < 10
        THEN check_error_rate(rolling_statuses) = NoRate
        ELSE /\ check_error_rate(rolling_statuses) # NoRate
             /\ FloatLE(check_error_rate(rolling_statuses), 100)

\* C6, amended: for a capacity >= 1, check_error_rate is undefined while the
\* window holds fewer than 10 statuses, that is while fewer than 10 have been
\* pushed or whenever the capacity is below 10, and is a value in [0,100] once
\* min(pushed, capacity) is 10 or more.
C6_DefinedFromTenHeld ==
    (WINDOW_SIZE >= 1 /\ pc = "run") =>
        IF Min(Len(hist), WINDOW_SIZE) < 10
        THEN check_error_rate(rolling_statuses) = NoRate
        ELSE /\ check_error_rate(rolling_statuses) # NoRate
             /\ FloatGE(check_error_rate(rolling_statuses), 0)
             /\ FloatLE(check_error_rate(rolling_statuses), 100)

\* the tenth status pushed into a window of ten: one 5xx in ten is 10.0
C6_Witness ==
    /\ WINDOW_SIZE = 10
    /\ Len(hist) = 10
    /\ check_error_rate(rolling_statuses) # NoRate
    /\ FloatFloor(check_error_rate(rolling_statuses)) = 10
    /\ FloatIsInt(check_error_rate(rolling_statuses))

\* C7, as claimed: after a record's status is pushed, a HighErrorRate event is
\* raised if and only if the window holds at least 10 entries and
\* (5xx count) * 100 / length >= ERROR_RATE_THRESHOLD.
C7_AsClaimed ==
    pc = "run" =>
        (out.er # "none" <=>
            /\ Len(rolling_statuses) >= 10
            /\ FiveHundreds(rolling_statuses) * 100
                 >= ERROR_RATE_THRESHOLD * Len(rolling_statuses))

\* the time the cooldown of a kind is counted from, for an alert that was not
\* delivered: the last delivery of the kind, or 0
CooldownFrom(key) == IF delivered[key] = -1 THEN 0 ELSE delivered[key]

\* C8, as claimed: for every event, with maintenance mode on the outcome is
\* suppressed-by-maintenance; with it off and no webhook URL the outcome is
\* suppressed-by-missing-config; suppressed-by-cooldown occurs only when both
\* of those gates pass.
C8_AsClaimed ==
    \A k \in AlertKinds :
        OutcomeOf(k) # "none" =>
            /\ MAINTENANCE_MODE => OutcomeOf(k) = "maintenance"
            /\ (~MAINTENANCE_MODE /\ SLACK_WEBHOOK_URL = "")
                  => OutcomeOf(k) = "noconfig"
            /\ OutcomeOf(k) = "cooldown"
                  => ~MAINTENANCE_MODE /\ SLACK_WEBHOOK_URL # ""

\* C8, amended: the gates are evaluated in the order cooldown, maintenance
\* mode, missing target.  An event inside the cooldown of its kind is
\* suppressed-by-cooldown whatever the two flags; outside it, with maintenance
\* mode on the outcome is suppressed-by-maintenance, with it off and no webhook
\* URL suppressed-by-missing-config, and otherwise the transport is called.
C8_CooldownThenGates ==
    \A k \in AlertKinds :
        /\ (OutcomeOf(k) # "none" /\ OutcomeOf(k) # "sent") =>
              OutcomeOf(k) =
                 IF TimeOf(k) - CooldownFrom(k) < ALERT_COOLDOWN_SEC
                 THEN "cooldown"
                 ELSE IF MAINTENANCE_MODE THEN "maintenance"
                 ELSE IF SLACK_WEBHOOK_URL = "" THEN "noconfig"
                 ELSE "failed"
        /\ OutcomeOf(k) = "sent" => ~MAINTENANCE_MODE /\ SLACK_WEBHOOK_URL # ""

\* maintenance mode on, and still a failover suppressed by the cooldown; no
\* webhook URL, and an error-rate alert suppressed by the cooldown
C8_Witness ==
    \/ MAINTENANCE_MODE /\ out.fo = "cooldown"
    \/ ~MAINTENANCE_MODE /\ SLACK_WEBHOOK_URL = "" /\ out.er = "cooldown"

\* C9, as claimed: with a capacity <= 0 the watcher runs with the window
\* disabled: the window stays empty, check_error_rate is undefined, no
\* HighErrorRate event is raised, and failover detection goes on.
C9_AsClaimed ==
    (WINDOW_SIZE <= 0 /\ pc # "load") =>
        /\ pc = "run"
        /\ rolling_statuses = <<>>
        /\ check_error_rate(rolling_statuses) = NoRate
        /\ out.er = "none"

\* the complete lines of a content, each with its newline
RECURSIVE LinesOf(_)
LinesOf(f) ==
    IF \A i \in 1..Len(f) : f[i] # "\n" THEN <<>>
    ELSE <<readline(f, 0)>> \o LinesOf(SubSeq(f, ReadlineEnd(f, 0) + 1, Len(f)))

IsPrefix(s, t) == Len(s) <= Len(t) /\ SubSeq(t, 1, Len(s)) = s

\* C10, as claimed: what follow has yielded is, in order and without
\* duplication or omission, a prefix of the lines appended to the file after
\* the follower sought to its end, and nothing that was in the file before
\* that is yielded.
C10_AsClaimed ==
    fpc # "seek" =>
        IsPrefix(yielded, LinesOf(SubSeq(file, seekpos + 1, Len(file))))

\* the lines appended since follow sought to the end of the file
AppendedLines == LinesOf(SubSeq(file, seekpos + 1, Len(file)))

\* the lines main has passed to handle_line
Handled == SubSeq(yielded, 1, Len(hist))

\* C11, as claimed: follow never ends on an empty read, and every line
\* appended to the followed file is eventually yielded and passed to
\* handle_line.
C11_AsClaimed ==
    \A n \in 1..MaxMainFile :
        (fpc \in {"read", "sleep"} /\ Len(AppendedLines) >= n)
            ~> (/\ Len(AppendedLines) >= n
                /\ \E j \in 1..Len(Handled) : Handled[j] = AppendedLines[n])

\* C12, as claimed: whatever other processes do to the file while
\* open_and_follow polls for it, open_and_follow never raises.
C12_AsClaimed == pc # "crashed"

\* C13: an exception raised while a line is processed never ends the
\* monitoring: main catches it and stays in its loop, every byte in the file
\* is still read by follow, and every line follow yields is still passed to
\* handle_line.
C13_ExceptionIsCaught ==
    /\ [](caught > 0 => pc = "run")
    /\ \A n \in 1..MaxMainFile :
          (caught > 0 /\ Len(file) - seekpos >= n)
              ~> (fpos - seekpos >= n /\ ~Pending)

\* a line raised, and a later line was handled and returned
C13_Witness ==
    /\ caught > 0
    /\ Len(hist) = 3
    /\ ~Pending
    /\ out.fo # "raised"
    /\ out.pool = "blue"

\* C14, as claimed: if the file never appears, the process eventually stops
\* retrying and exits with a non-zero status.
C14_AsClaimed == <>(appeared \/ pc # "run")

\* C14, amended: if the log path cannot be opened because the file never
\* appears, the process never stops retrying and never exits: as long as the
\* file has not appeared, main is in open_and_follow, at its first open or in
\* its poll loop.
C14_PollsWhileMissing ==
    ~appeared => (pc = "run" /\ fpc \in {"open", "poll", "check"})

\* the file has not appeared and the poll loop has slept and tested once more
C14_Witness == ~appeared /\ ~exists /\ fpc = "check"

\* C15: after every handle_line call last_seen_pool is the pool of the record
\* just processed, whatever became of the failover alert, so a HighErrorRate
\* alert raised on the line of a pool change names the new pool.
C15_SeenIsRecordPool ==
    (pc = "run" /\ out.pool # None) =>
        /\ last_seen_pool = out.pool
        /\ out.er # "none" => out.erPool = out.pool

\* a pool change whose failover alert failed, with an error-rate alert on the
\* same line
C15_Witness ==
    /\ out.prev = "blue" /\ out.pool = "green"
    /\ out.fo = "failed"
    /\ out.er # "none"
    /\ out.erPool = "green"

\* C16: the two kinds of alert have cooldowns of their own: a handle_line call
\* changes last_alert_time of a kind only by delivering an alert of that kind,
\* an alert is suppressed by cooldown only within ALERT_COOLDOWN_SEC of its own
\* kind's last_alert_time, and both kinds may be delivered on one line.
C16_IndependentCooldowns ==
    [][Len(hist') > Len(hist) =>
          \A k \in AlertKinds :
             /\ last_alert_time'[k] =
                   IF OutcomeOf(k)' = "sent" THEN TimeOf(k)'
                   ELSE last_alert_time[k]
             /\ OutcomeOf(k)' = "cooldown" =>
                   TimeOf(k)' - last_alert_time[k] < ALERT_COOLDOWN_SEC]_vars

\* a failover alert and an error-rate alert delivered on the same line
C16_Witness ==
    /\ out.fo = "sent" /\ out.er = "sent"
    /\ last_alert_time["failover"] = out.tF
    /\ last_alert_time["error_rate"] = out.tE

Undelivered == {"failed", "cooldown", "maintenance", "noconfig"}

\* C17: a failover whose alert was not delivered is not retried by the later
\* records of the same pool, which raise no failover at all, while an
\* error-rate alert that was not delivered is raised again by the next record
\* that still meets the threshold, and calls the transport again if its last
\* call failed.
C17_FailoverNotRetried ==
    [][Len(hist') > Len(hist) =>
          /\ (out.fo \in Undelivered /\ out'.pool = out.pool)
                => out'.fo = "none"
          /\ out.er \in Undelivered
                => \/ out'.er # "none" /\ (out.er = "failed" => IsCall(out'.er))
                   \/ ~RateHigh(check_error_rate(rolling_statuses'))
      ]_vars

\* the last failover call failed and the record after it, of the same pool,
\* raises no failover, while the failed error-rate alert is sent again
C17_Witness ==
    /\ failedAt["failover"] >= 0
    /\ out.pool = out.prev
    /\ out.fo = "none"
    /\ out.erGap >= 0
    /\ IsCall(out.er)

\* C18: a line without a pool= token has pool "unknown", which is compared
\* like any other pool: after a record of pool p it is a failover from p to
\* "unknown", and a record of pool p after it is a failover from "unknown" to p.
C18_UnknownIsAPool ==
    /\ Len(hist) > 0 => out.pool \in PoolTokens \cup {"unknown"}
    /\ (out.pool = "unknown" /\ out.prev \in PoolTokens) =>
          (out.fo # "none" /\ out.from = out.prev /\ out.to = "unknown")
    /\ (out.prev = "unknown" /\ out.pool \in PoolTokens) =>
          (out.fo # "none" /\ out.from = "unknown" /\ out.to = out.pool)

\* blue, a line without pool=, blue again: the third record is a failover from
\* "unknown" to blue
C18_Witness ==
    /\ Len(hist) = 3
    /\ out.prev = "unknown" /\ out.pool = "blue"
    /\ out.fo # "none"
    /\ out.from = "unknown" /\ out.to = "blue"
    /\ last_seen_pool = "blue"

\* C19: a record that changes the pool leaves the window as it was but for the
\* push of its status: the window is not cleared and loses at most its oldest
\* entry, when it was full, so the 5xx statuses of the previous pool stay.
C19_WindowKeptOnFailover ==
    [][(Len(hist') > Len(hist) /\ WINDOW_SIZE > 0 /\ out'.fo # "none") =>
          rolling_statuses' =
             (IF Len(rolling_statuses) = WINDOW_SIZE
              THEN Tail(rolling_statuses) ELSE rolling_statuses)
             \o <<hist'[Len(hist')]>>]_vars

\* a full window of three: the pool changes on the fourth record, and the 500
\* of the previous pool is still counted
C19_Witness ==
    /\ WINDOW_SIZE = 3
    /\ hist = <<200, 500, 200, 200>>
    /\ out.fo # "none"
    /\ rolling_statuses = <<500, 200, 200>>
    /\ FiveHundreds(rolling_statuses) = 1

====
